---- MODULE Spec2Model ----
(***************************************************************************)
(* simplecoder (examples/simplecoder.c): a text file of tokens is read     *)
(* into a singly linked chain of Token objects (readtokens / firsttoken),  *)
(* the chain is walked by a recursive-descent encoder (encoderecursive /   *)
(* encodecontainerhelper) that drives the CBOR codec, and the encoded      *)
(* buffer is dumped (main).                                                *)
(*                                                                         *)
(* Characters are one-character strings, C strings are sequences of        *)
(* characters without the terminating zero, pointers into the token heap   *)
(* are indices into the sequence `tokens`.                                 *)
(***************************************************************************)
EXTENDS Integers, Sequences, FiniteSets, TLC

VARIABLES
    pc,        \* position of main: "main", "initcontext", "fopen", "fgets",
               \* "firsttoken", "fclose", "encode", "encoderecursive",
               \* "helperreturn", "dump", "cleanupcontext", "exit",
               \* "crashed"
    input,     \* the characters of the input file, as it is on disk
    argc,      \* main's argc
    file,      \* the characters of the input file not yet read by fgets
    ptr,       \* readtokens: the rest of linebuff still to be scanned
    lineno,    \* readtokens: lineno
    tokens,    \* the heap of Token objects, in allocation order
    ctx,       \* main's EncoderContext
    helpers,   \* the active encodecontainerhelper frames, outermost first
    calls,     \* the codec calls made so far, in order, with their results
    err,       \* readfile: err, the value readtokens returned
    diag,      \* the lines written to stderr, in order
    out,       \* the dumps written to stdout, in order
    result     \* main's result / the exit status

vars == <<pc, input, argc, file, ptr, lineno, tokens, ctx, helpers, calls, err, diag, out, result>>

----------------------------------------------------------------------------
(* Bounds of the model. *)

\* Spec: the input file is a concatenation of at most MaxPieces pieces.
MaxPieces == 3

\* EncSpec: the token chain handed to encode has at most MaxLen tokens.
MaxLen == 6

\* TermSpec: the properly terminated chain handed to encode has at most
\* MaxTermLen tokens.
MaxTermLen == 5

\* LexSpec: the input file is a concatenation of at most MaxLexPieces pieces
\* of literals, or one of a few files with a line at the limit of linebuff.
MaxLexPieces == 3

----------------------------------------------------------------------------
(* Program constants. *)

\* main: enum {AppName, FileName, BuffSize, ArgCount}
ArgCount == 3

\* readtokens: char linebuff[1024]
LineBuffSize == 1024

\* long int vali: the range of long int where it has 32 bits, the least the
\* language allows (ILP32 and LLP64 builds); strtol clamps in the same way
\* where it has 64.
LONG_MAX == 2147483647
LONG_MIN == (0 - LONG_MAX) - 1

\* Pointer values.  NULL is the null pointer; Uninit marks a `next` field
\* that was never assigned (alloctoken does not initialise it); Wild is an
\* indeterminate non-null value obtained by reading such a field.
NULL == 0
Uninit == -1
Wild == -2

\* What a read of a never-assigned pointer field can yield.
UninitReads == {NULL, Wild}

\* CborError values seen by this file.  `x != CborNoError` is the int 1,
\* which converted back to CborError is CborUnknownError.
CborNoError == "CborNoError"
CborUnknownError == "CborUnknownError"
CborErrorOutOfMemory == "CborErrorOutOfMemory"
CborErrorTooManyItems == "CborErrorTooManyItems"

\* The errors a codec call can return instead of CborNoError.
CodecErrors == {CborErrorOutOfMemory, CborErrorTooManyItems}

CborIndefiniteLength == "CborIndefiniteLength"

----------------------------------------------------------------------------
(* Characters and <ctype.h>. *)

Digits == {"0", "1", "2", "3", "4", "5", "6", "7", "8", "9"}

Letters ==
    {"a", "b", "c", "d", "e", "f", "g", "h", "i", "j", "k", "l", "m",
     "n", "o", "p", "q", "r", "s", "t", "u", "v", "w", "x", "y", "z",
     "A", "B", "C", "D", "E", "F", "G", "H", "I", "J", "K", "L", "M",
     "N", "O", "P", "Q", "R", "S", "T", "U", "V", "W", "X", "Y", "Z"}

isspace(c) == c \in {" ", "\t", "\n", "\r", "\f"}

isalnum(c) == c \in Letters \cup Digits

HexDigits == Digits \cup {"a", "b", "c", "d", "e", "f", "A", "B", "C", "D", "E", "F"}

OctDigits == {"0", "1", "2", "3", "4", "5", "6", "7"}

DigitVal(c) ==
    CASE c = "0" -> 0 [] c = "1" -> 1 [] c = "2" -> 2 [] c = "3" -> 3
      [] c = "4" -> 4 [] c = "5" -> 5 [] c = "6" -> 6 [] c = "7" -> 7
      [] c = "8" -> 8 [] c = "9" -> 9
      [] c \in {"a", "A"} -> 10 [] c \in {"b", "B"} -> 11
      [] c \in {"c", "C"} -> 12 [] c \in {"d", "D"} -> 13
      [] c \in {"e", "E"} -> 14 [] c \in {"f", "F"} -> 15

\* The C string as a sequence of characters.
CStr(s) ==
    CASE s = "Array" -> <<"A", "r", "r", "a", "y">>
      [] s = "Map" -> <<"M", "a", "p">>
      [] s = "null" -> <<"n", "u", "l", "l">>
      [] s = "undefined" -> <<"u", "n", "d", "e", "f", "i", "n", "e", "d">>
      [] s = "true" -> <<"t", "r", "u", "e">>
      [] s = "false" -> <<"f", "a", "l", "s", "e">>

\* str + n
Drop(str, n) == SubSeq(str, n + 1, Len(str))

\* The positions from i on where a scan of str stops, the position of the
\* terminating zero included, and the first of them.
FirstStop(str, i, stops) ==
    LET all == stops \cup {Len(str) + 1}
    IN  CHOOSE j \in all : \A k \in all : j <= k

\* The number of leading characters of str, from position i on, that are in S.
Span(str, i, S) ==
    IF i > Len(str) THEN 0
    ELSE FirstStop(str, i, {j \in i..Len(str) : str[j] \notin S}) - i

\* The number of characters of str, from position i on, before the first c.
SpanNot(str, i, c) ==
    IF i > Len(str) THEN 0
    ELSE FirstStop(str, i, {j \in i..Len(str) : str[j] = c}) - i

----------------------------------------------------------------------------
(* The token recognisers. *)

\* trailingspace and the store of '\0' at readtokens line 294: the line
\* without its trailing white space.
trailingspace(str) ==
    LET kept == {j \in 1..Len(str) : ~isspace(str[j])}
    IN  IF kept = {} THEN <<>>
        ELSE SubSeq(str, 1, CHOOSE j \in kept : \A k \in kept : k <= j)

skipws(str) == Span(str, 1, {" ", "\t", "\n", "\r", "\f"})

\* strncmp(str, tokenstr, len) == 0
HasPrefix(str, tokenstr) ==
    /\ Len(str) >= Len(tokenstr)
    /\ SubSeq(str, 1, Len(tokenstr)) = tokenstr

\* variant of skipalnumtoken: the character after the keyword is not looked at
skipalnumtokenAnyFollower(str, tokenstr) ==
    IF Len(tokenstr) > 0 /\ HasPrefix(str, tokenstr) THEN Len(tokenstr) ELSE 0

skipalnumtoken(str, tokenstr) ==
    LET len == Len(tokenstr) IN
    IF /\ len > 0
       /\ HasPrefix(str, tokenstr)
       /\ ~(Len(str) > len /\ isalnum(str[len + 1]))
    THEN len
    ELSE 0

skipchartoken(str, tokenc) == IF str # <<>> /\ str[1] = tokenc THEN 1 ELSE 0

\* strtol(str, &end, 0): the number of characters consumed and the value.
\* An optional sign, then 0x/0X and hexadecimal digits, or a leading 0 and
\* octal digits, or decimal digits; nothing is consumed without a digit.
StrtolSign(str) == IF str # <<>> /\ str[1] \in {"+", "-"} THEN 1 ELSE 0

StrtolIsHex(str, p) ==
    /\ Len(str) >= p + 2
    /\ str[p] = "0"
    /\ str[p + 1] \in {"x", "X"}
    /\ str[p + 2] \in HexDigits

StrtolBase(str) ==
    LET p == StrtolSign(str) + 1 IN
    IF StrtolIsHex(str, p) THEN 16
    ELSE IF Len(str) >= p /\ str[p] = "0" THEN 8
    ELSE 10

StrtolDigitSet(base) ==
    IF base = 16 THEN HexDigits ELSE IF base = 8 THEN OctDigits ELSE Digits

\* first position of the digits, and their count
StrtolFirst(str) ==
    StrtolSign(str) + 1 + (IF StrtolBase(str) = 16 THEN 2 ELSE 0)

StrtolCount(str) == Span(str, StrtolFirst(str), StrtolDigitSet(StrtolBase(str)))

StrtolLen(str) ==
    IF StrtolCount(str) = 0 THEN 0 ELSE StrtolFirst(str) - 1 + StrtolCount(str)

\* The digits are accumulated as a value <= 0 (LONG_MIN has no positive
\* counterpart); a value that leaves the range of long int sticks at
\* LONG_MIN.
RECURSIVE StrtolAcc(_, _, _, _, _)
StrtolAcc(str, i, n, base, acc) ==
    IF n = 0 THEN acc
    ELSE LET d == DigitVal(str[i]) IN
         IF acc < (LONG_MIN + d + base - 1) \div base THEN LONG_MIN
         ELSE StrtolAcc(str, i + 1, n - 1, base, acc * base - d)

\* the value strtol returns: the value of the digits, or LONG_MAX / LONG_MIN
\* when it is out of range (errno, set to ERANGE then, is not looked at)
StrtolVal(str) ==
    LET v == StrtolAcc(str, StrtolFirst(str), StrtolCount(str), StrtolBase(str), 0) IN
    IF StrtolSign(str) = 1 /\ str[1] = "-" THEN v
    ELSE IF v = LONG_MIN THEN LONG_MAX
    ELSE 0 - v

skipinttoken(str) == [skip |-> StrtolLen(str), out |-> StrtolVal(str)]

\* strtod(str, &end): the number of characters consumed.  An optional sign,
\* then a decimal mantissa (digits with an optional point, at least one
\* digit) with an optional exponent, or a hexadecimal mantissa after 0x with
\* an optional binary exponent, or inf / infinity / nan in any case.
LowerOf(c) ==
    CASE c = "I" -> "i" [] c = "N" -> "n" [] c = "F" -> "f"
      [] c = "T" -> "t" [] c = "Y" -> "y" [] c = "A" -> "a"
      [] OTHER -> c

HasPrefixNoCase(str, p, word) ==
    /\ Len(str) >= p - 1 + Len(word)
    /\ \A i \in 1..Len(word) : LowerOf(str[p - 1 + i]) = word[i]

\* length of an exponent part at position p: marker, optional sign, digits
StrtodExp(str, p, markers) ==
    IF Len(str) >= p /\ str[p] \in markers
    THEN LET s == IF Len(str) >= p + 1 /\ str[p + 1] \in {"+", "-"} THEN 1 ELSE 0
             n == Span(str, p + 1 + s, Digits)
         IN  IF n = 0 THEN 0 ELSE 1 + s + n
    ELSE 0

\* length of a mantissa at position p over the digit set S, 0 if it has no digit
StrtodMant(str, p, S) ==
    LET n1 == Span(str, p, S)
        dot == Len(str) >= p + n1 /\ str[p + n1] = "."
        n2 == IF dot THEN Span(str, p + n1 + 1, S) ELSE 0
    IN  IF n1 + n2 = 0 THEN 0 ELSE n1 + (IF dot THEN 1 + n2 ELSE 0)

StrtodLen(str) ==
    LET s == StrtolSign(str)
        p == s + 1
        hexm == IF Len(str) >= p + 1 /\ str[p] = "0" /\ str[p + 1] \in {"x", "X"}
                THEN StrtodMant(str, p + 2, HexDigits) ELSE 0
        decm == StrtodMant(str, p, Digits)
    IN  IF hexm > 0 THEN s + 2 + hexm + StrtodExp(str, p + 2 + hexm, {"p", "P"})
        ELSE IF decm > 0 THEN s + decm + StrtodExp(str, p + decm, {"e", "E"})
        ELSE IF HasPrefixNoCase(str, p, <<"i", "n", "f", "i", "n", "i", "t", "y">>) THEN s + 8
        ELSE IF HasPrefixNoCase(str, p, <<"i", "n", "f">>) THEN s + 3
        ELSE IF HasPrefixNoCase(str, p, <<"n", "a", "n">>) THEN s + 3
        ELSE 0

\* variant of skipdoubletoken: strtod consumes nothing
skipdoubletokenNone(str) == [skip |-> 0, out |-> <<>>]

\* the double is kept as the text of the literal
skipdoubletoken(str) ==
    [skip |-> StrtodLen(str), out |-> SubSeq(str, 1, StrtodLen(str))]

\* variant of skipstrtoken: *pend is set past the closing quote
skipstrtokenPastQuote(str) ==
    IF str # <<>> /\ str[1] = "\""
    THEN LET end == 1 + SpanNot(str, 2, "\"")
         IN  IF Len(str) >= end + 1 /\ str[end + 1] = "\""
             THEN [skip |-> end + 1, begin |-> 1, end |-> end + 1]
             ELSE [skip |-> 0, begin |-> 0, end |-> 0]
    ELSE [skip |-> 0, begin |-> 0, end |-> 0]

\* skipstrtoken: [skip, begin, end] with begin/end as offsets into str
\* (str + begin is the first character of the payload, str + end the
\* closing quote); skip = 0 when there is no closing quote.
skipstrtoken(str) ==
    IF str # <<>> /\ str[1] = "\""
    THEN LET end == 1 + SpanNot(str, 2, "\"")
         IN  IF Len(str) >= end + 1 /\ str[end + 1] = "\""
             THEN [skip |-> end + 1, begin |-> 1, end |-> end]
             ELSE [skip |-> 0, begin |-> 0, end |-> 0]
    ELSE [skip |-> 0, begin |-> 0, end |-> 0]

\* skipalnumtokens: the pattern table, tried in order
AlnumPatterns ==
    << [tokenstr |-> CStr("Array"), type |-> "Array"],
       [tokenstr |-> CStr("Map"), type |-> "Map"],
       [tokenstr |-> CStr("null"), type |-> "Null"],
       [tokenstr |-> CStr("undefined"), type |-> "Undefined"] >>

skipalnumtokens(str) ==
    LET hits == {i \in DOMAIN AlnumPatterns :
                    skipalnumtoken(str, AlnumPatterns[i].tokenstr) > 0}
    IN  IF hits = {} THEN [skip |-> 0, type |-> "None"]
        ELSE LET i == CHOOSE i \in hits : \A j \in hits : i <= j
             IN  [skip |-> skipalnumtoken(str, AlnumPatterns[i].tokenstr),
                  type |-> AlnumPatterns[i].type]

\* skipchartokens: the pattern table, tried in order
CharPatterns ==
    << [tokenc |-> "[", type |-> "OpeningBracket"],
       [tokenc |-> "]", type |-> "ClosingBracket"] >>

skipchartokens(str) ==
    LET hits == {i \in DOMAIN CharPatterns :
                    skipchartoken(str, CharPatterns[i].tokenc) > 0}
    IN  IF hits = {} THEN [skip |-> 0, type |-> "None"]
        ELSE LET i == CHOOSE i \in hits : \A j \in hits : i <= j
             IN  [skip |-> 1, type |-> CharPatterns[i].type]

\* firsttoken up to the call of alloctoken: what is recognised at str.
\*   recognized  FALSE for "token not recognized"
\*   ws          the white space skipped (str += skipws(str))
\*   skip, type, data  as in the code; data is the payload handed to
\*               alloctoken (0 when there is none)
firsttoken(str0) ==
    LET ws == skipws(str0)
        str == Drop(str0, ws)
        a == skipalnumtokens(str)
        c == skipchartokens(str)
        s == skipstrtoken(str)
        d == skipdoubletoken(str)
        i == skipinttoken(str)
        mk(t, k, v) == [recognized |-> TRUE, ws |-> ws, skip |-> k, type |-> t, data |-> v]
    IN  IF str = <<>> THEN mk("None", 0, 0)
        ELSE IF a.skip > 0 THEN mk(a.type, a.skip, 0)
        ELSE IF c.skip > 0 THEN mk(c.type, c.skip, 0)
        ELSE IF s.skip > 0 THEN mk("String", s.skip, SubSeq(str, s.begin + 1, s.end))
        ELSE IF skipalnumtoken(str, CStr("true")) > 0
             THEN mk("Bool", skipalnumtoken(str, CStr("true")), 1)
        ELSE IF skipalnumtoken(str, CStr("false")) > 0
             THEN mk("Bool", skipalnumtoken(str, CStr("false")), 0)
        ELSE IF d.skip > i.skip THEN mk("Double", d.skip, d.out)
        ELSE IF i.skip > 0 THEN mk("Int", i.skip, i.out)
        ELSE [recognized |-> FALSE, ws |-> ws, skip |-> 0, type |-> "None", data |-> 0]

----------------------------------------------------------------------------
(* Diagnostics: one record per line written to stderr. *)

complain(msg) ==
    [fn |-> "complain", msg |-> msg, line |-> 0, err |-> CborNoError, s |-> <<>>]

complainline(msg, n) ==
    [fn |-> "complainline", msg |-> msg, line |-> n, err |-> CborNoError, s |-> <<>>]

complainstr(msg, str) ==
    [fn |-> "complainstr", msg |-> msg, line |-> 0, err |-> CborNoError, s |-> str]

complainerrno(msg) ==
    [fn |-> "complainerrno", msg |-> msg, line |-> 0, err |-> CborNoError, s |-> <<>>]

complainencode(e, n) ==
    [fn |-> "complainencode", msg |-> "encoder error", line |-> n, err |-> e, s |-> <<>>]

----------------------------------------------------------------------------
(* main, initcontext, readfile, readtokens. *)

\* memset(ctx, 0, sizeof(*ctx))
ZeroContext ==
    [tokens |-> NULL, curtoken |-> NULL, nestinglvl |-> 0, encoder |-> 0,
     outbuff |-> "NULL"]

\* main up to the call of initcontext
Main ==
    /\ pc = "main"
    /\ IF argc # ArgCount
       THEN /\ out' = Append(out, "simplecoder <filename> <bufsize>")
            /\ result' = 0
            /\ pc' = "exit"
       ELSE /\ out' = out
            /\ result' = 1
            /\ pc' = "initcontext"
    /\ UNCHANGED <<input, argc, file, ptr, lineno, tokens, ctx, helpers, calls, err, diag>>

\* initcontext, and main's branch on its result
InitContext ==
    /\ pc = "initcontext"
    /\ \E malloced \in BOOLEAN :
         IF malloced
         THEN /\ ctx' = [ZeroContext EXCEPT !.outbuff = "allocated"]
              /\ diag' = diag
              /\ pc' = "fopen"
         ELSE /\ ctx' = ZeroContext
              /\ diag' = diag \o <<complain("coder ctx out buffer allocation failure"),
                                   complain("context initialization failure")>>
              /\ pc' = "cleanupcontext"
    /\ UNCHANGED <<input, argc, file, ptr, lineno, tokens, helpers, calls, err, out, result>>

\* readfile: fopen, and on failure main's branch
FOpen ==
    /\ pc = "fopen"
    /\ \E opened \in BOOLEAN :
         IF opened
         THEN /\ diag' = diag
              /\ pc' = "fgets"
         ELSE /\ diag' = diag \o <<complainerrno("file open failure"),
                                   complain("read file failure")>>
              /\ pc' = "cleanupcontext"
    /\ lineno' = 0
    /\ UNCHANGED <<input, argc, file, ptr, tokens, ctx, helpers, calls, err, out, result>>

\* fgets(linebuff, sizeof(linebuff), file): the number of characters read,
\* at most sizeof - 1, ending after the first newline
FgetsLen(f) ==
    LET toeol == SpanNot(f, 1, "\n")
        line == IF toeol < Len(f) THEN toeol + 1 ELSE toeol
    IN  IF line > LineBuffSize - 1 THEN LineBuffSize - 1 ELSE line

\* readtokens: one pass of the while loop head: fgets, the trim, ++lineno
FGets ==
    /\ pc = "fgets"
    /\ IF file = <<>>
       THEN /\ err' = 0
            /\ pc' = "fclose"
            /\ UNCHANGED <<file, ptr, lineno>>
       ELSE LET n == FgetsLen(file)
                linebuff == trailingspace(SubSeq(file, 1, n))
            IN  /\ file' = Drop(file, n)
                /\ ptr' = linebuff
                /\ lineno' = lineno + 1
                /\ pc' = IF linebuff = <<>> THEN "fgets" ELSE "firsttoken"
                /\ err' = err
    /\ UNCHANGED <<input, argc, tokens, ctx, helpers, calls, diag, out, result>>

\* alloctoken: the outcomes of its mallocs
AllocOutcomes(type) ==
    IF type = "String"
    THEN {"ok", "token allocation failure", "string token buffer allocation failure"}
    ELSE {"ok", "token allocation failure"}

\* alloctoken: the Token it returns; next and lineno are not assigned.
\* For a String, data holds the size characters to copy: the buffer vals is
\* malloc(size + 1), the characters followed by the terminator; val is the
\* C string in it and size the size of the buffer.  freed and valsfreed
\* count the calls of free on the token and on its buffer.
alloctoken(type, data) ==
    [type |-> type, val |-> data,
     size |-> IF type = "String" THEN Len(data) + 1 ELSE 0,
     lineno |-> 0, next |-> Uninit, freed |-> 0, valsfreed |-> 0]

freetoken(token) ==
    [token EXCEPT !.freed = @ + 1,
                  !.valsfreed = IF token.type = "String" THEN @ + 1 ELSE @]

\* variant of AppendToken: the token is linked in front of the head
AppendTokenAtHead(token) ==
    LET stamped == [token EXCEPT !.lineno = lineno, !.next = ctx.tokens]
        new == Len(tokens) + 1
    IN  /\ tokens' = Append(tokens, stamped)
        /\ ctx' = [ctx EXCEPT !.tokens = new, !.curtoken = new]

\* readtokens lines 306-313: the token is stamped and linked to the tail
AppendToken(token) ==
    LET stamped == [token EXCEPT !.lineno = lineno]
        new == Len(tokens) + 1
    IN  IF ctx.curtoken = NULL
        THEN /\ tokens' = Append(tokens, stamped)
             /\ ctx' = [ctx EXCEPT !.tokens = new, !.curtoken = new]
        ELSE /\ tokens' = Append([tokens EXCEPT ![ctx.curtoken].next = new], stamped)
             /\ ctx' = [ctx EXCEPT !.curtoken = new]

\* readtokens: one pass of the for loop body: firsttoken and the append
FirstToken ==
    /\ pc = "firsttoken"
    /\ ptr # <<>>
    /\ LET r == firsttoken(ptr) IN
       IF ~r.recognized
       THEN /\ diag' = diag \o <<complainstr("token not recognized", Drop(ptr, r.ws)),
                                 complain("read tokens failure")>>
            /\ err' = 1
            /\ pc' = "fclose"
            /\ UNCHANGED <<ptr, tokens, ctx>>
       ELSE \E m \in AllocOutcomes(r.type) :
              IF m # "ok"
              THEN /\ diag' = diag \o <<complain(m), complain("read tokens failure")>>
                   /\ err' = 1
                   /\ pc' = "fclose"
                   /\ UNCHANGED <<ptr, tokens, ctx>>
              ELSE /\ IF r.type = "None"
                      THEN UNCHANGED <<tokens, ctx>>
                      ELSE AppendToken(alloctoken(r.type, r.data))
                   /\ ptr' = Drop(ptr, r.ws + r.skip)
                   /\ pc' = IF ptr' = <<>> THEN "fgets" ELSE "firsttoken"
                   /\ UNCHANGED <<diag, err>>
    /\ UNCHANGED <<input, argc, file, lineno, helpers, calls, out, result>>

\* readfile: fclose and the return to main, and main's branch on the result
FClose ==
    /\ pc = "fclose"
    /\ \E closed \in BOOLEAN :
         LET e == IF closed THEN err ELSE 1
             d == IF closed THEN diag ELSE Append(diag, complainerrno("file close failure"))
         IN  /\ err' = e
             /\ IF e # 0
                THEN /\ diag' = Append(d, complain("read file failure"))
                     /\ pc' = "cleanupcontext"
                ELSE /\ diag' = d
                     /\ pc' = "encode"
    /\ UNCHANGED <<input, argc, file, ptr, lineno, tokens, ctx, helpers, calls, out, result>>

----------------------------------------------------------------------------
(* The codec (cbor.h), as far as this file sees it: every call returns     *)
(* CborNoError or an error, and is recorded with its arguments.            *)

CodecResults == {CborNoError} \cup CodecErrors

\* a call on encoder enc; arg is the payload, or the sub-encoder of an
\* open/close call
CodecCall(op, enc, arg, e) ==
    [op |-> op, enc |-> enc, arg |-> arg, len |-> "", err |-> e]

\* create_container(&ctx->encoder, &nestedctx.encoder, CborIndefiniteLength)
CreateCall(op, enc, sub, e) ==
    [CodecCall(op, enc, sub, e) EXCEPT !.len = CborIndefiniteLength]

CreateOps == {"cbor_encoder_create_array", "cbor_encoder_create_map"}

\* the CborEncoder a create call initialises: a fresh one per call
NewEncoder == Cardinality({i \in DOMAIN calls : calls[i].op \in CreateOps}) + 1

----------------------------------------------------------------------------
(* encode, encoderecursive, encodecontainerhelper. *)

\* the EncoderContext the running encoderecursive works on
Active == IF helpers = <<>> THEN ctx ELSE helpers[Len(helpers)].nestedctx

\* the context of the encoderecursive that called the k-th helper
Enclosing(k) == IF k = 1 THEN ctx ELSE helpers[k - 1].nestedctx

\* variant of ReadNext: the read yields p itself
ReadNextSame(p) == {p}

\* what reading p->next yields
ReadNext(p) == IF tokens[p].next = Uninit THEN UninitReads ELSE {tokens[p].next}

\* the cursor of the running encoderecursive is set to c
SetCursor(c) ==
    IF helpers = <<>>
    THEN /\ ctx' = [ctx EXCEPT !.curtoken = c]
         /\ helpers' = helpers
    ELSE /\ ctx' = ctx
         /\ helpers' = [helpers EXCEPT ![Len(helpers)].nestedctx.curtoken = c]

\* "encode container failure": one line per helper the failure passes through
RECURSIVE UnwindDiag(_)
UnwindDiag(hs) ==
    IF hs = <<>> THEN <<>>
    ELSE <<complainline("encode container failure", tokens[hs[Len(hs)].token].lineno)>>
         \o UnwindDiag(SubSeq(hs, 1, Len(hs) - 1))

\* variant of Fail: main goes on to dump whatever encode returned
FailThenDump(d, hs) ==
    /\ diag' = diag \o d \o UnwindDiag(hs)
    /\ helpers' = <<>>
    /\ pc' = "dump"

\* variant of Fail: main does not report the failure of encode
FailUnreported(d, hs) ==
    /\ diag' = diag \o d \o UnwindDiag(hs)
    /\ helpers' = <<>>
    /\ pc' = "cleanupcontext"

\* return 1 out of the helpers hs, the running encoderecursive and encode,
\* after the lines d, and main's branch on it
Fail(d, hs) ==
    /\ diag' = diag \o d \o UnwindDiag(hs) \o <<complain("encode failure")>>
    /\ helpers' = <<>>
    /\ pc' = "cleanupcontext"

\* encode up to the call of encoderecursive
Encode ==
    /\ pc = "encode"
    /\ ctx' = [ctx EXCEPT !.curtoken = ctx.tokens]
    /\ pc' = "encoderecursive"
    /\ UNCHANGED <<input, argc, file, ptr, lineno, tokens, helpers, calls, err, diag, out, result>>

\* encoderecursive: the loop condition fails, return 0
LoopExit ==
    /\ pc = "encoderecursive"
    /\ Active.curtoken = NULL
    /\ pc' = IF helpers = <<>> THEN "dump" ELSE "helperreturn"
    /\ UNCHANGED <<input, argc, file, ptr, lineno, tokens, ctx, helpers, calls, err, diag, out, result>>

\* a token is read through an indeterminate pointer
WildRead ==
    /\ pc = "encoderecursive"
    /\ Active.curtoken = Wild
    /\ pc' = "crashed"
    /\ UNCHANGED <<input, argc, file, ptr, lineno, tokens, ctx, helpers, calls, err, diag, out, result>>

ScalarTypes == {"Int", "Double", "String", "Null", "Bool", "Undefined"}

\* the codec entry point of a scalar token and the value passed
ScalarOp(token) ==
    CASE token.type = "Int" -> "cbor_encode_int"
      [] token.type = "Double" -> "cbor_encode_double"
      [] token.type = "String" -> "cbor_encode_text_stringz"
      [] token.type = "Null" -> "cbor_encode_null"
      [] token.type = "Bool" -> "cbor_encode_boolean"
      [] token.type = "Undefined" -> "cbor_encode_undefined"

ScalarArg(token) ==
    CASE token.type \in {"Int", "Double", "String"} -> token.val
      [] token.type = "Bool" -> (token.val # 0)
      [] OTHER -> 0

\* encoderecursive: a scalar token
EncodeScalar ==
    /\ pc = "encoderecursive"
    /\ Active.curtoken \notin {NULL, Wild}
    /\ LET token == tokens[Active.curtoken] IN
       /\ token.type \in ScalarTypes
       /\ \E e \in CodecResults :
            /\ calls' = Append(calls, CodecCall(ScalarOp(token), Active.encoder,
                                                ScalarArg(token), e))
            /\ IF e # CborNoError
               THEN /\ Fail(<<complainencode(e, token.lineno)>>, helpers)
                    /\ ctx' = ctx
               ELSE /\ \E n \in ReadNext(Active.curtoken) : SetCursor(n)
                    /\ UNCHANGED <<diag, pc>>
    /\ UNCHANGED <<input, argc, file, ptr, lineno, tokens, err, out, result>>

\* variant of BracketAllowed: the level is not looked at
BracketAllowedAlways(c) == TRUE

\* the level a ClosingBracket may be consumed at
BracketAllowed(c) == c.nestinglvl > 0

\* encoderecursive: case ClosingBracket
EncodeClosingBracket ==
    /\ pc = "encoderecursive"
    /\ Active.curtoken \notin {NULL, Wild}
    /\ LET token == tokens[Active.curtoken] IN
       /\ token.type = "ClosingBracket"
       /\ IF BracketAllowed(Active)
          THEN /\ IF helpers = <<>>
                  THEN /\ ctx' = [ctx EXCEPT !.nestinglvl = @ - 1]
                       /\ helpers' = helpers
                       /\ pc' = "dump"
                  ELSE /\ ctx' = ctx
                       /\ helpers' = [helpers EXCEPT
                                         ![Len(helpers)].nestedctx.nestinglvl = @ - 1]
                       /\ pc' = "helperreturn"
               /\ diag' = diag
          ELSE /\ Fail(<<complainline("unexpected bracket", token.lineno)>>, helpers)
               /\ ctx' = ctx
    /\ UNCHANGED <<input, argc, file, ptr, lineno, tokens, calls, err, out, result>>

\* variant of EncodeUnhandled: the token is skipped
EncodeUnhandledSkips ==
    /\ pc = "encoderecursive"
    /\ Active.curtoken \notin {NULL, Wild}
    /\ tokens[Active.curtoken].type \notin ScalarTypes \cup {"Array", "Map", "ClosingBracket"}
    /\ \E n \in ReadNext(Active.curtoken) : SetCursor(n)
    /\ UNCHANGED <<input, argc, file, ptr, lineno, tokens, calls, err, diag, out, result, pc>>

\* encoderecursive: default
EncodeUnhandled ==
    /\ pc = "encoderecursive"
    /\ Active.curtoken \notin {NULL, Wild}
    /\ LET token == tokens[Active.curtoken] IN
       /\ token.type \notin ScalarTypes \cup {"Array", "Map", "ClosingBracket"}
       /\ Fail(<<complainline("unhandled token", token.lineno)>>, helpers)
    /\ UNCHANGED <<input, argc, file, ptr, lineno, tokens, ctx, calls, err, out, result>>

\* variant of CreateContainerFn: encodemaphelper passes the array opener
CreateContainerFnArray(token) == "cbor_encoder_create_array"

\* the codec entry point encodearrayhelper / encodemaphelper pass on
CreateContainerFn(token) ==
    IF token.type = "Array" THEN "cbor_encoder_create_array"
    ELSE "cbor_encoder_create_map"

\* variant of HelperErr: the result of the codec call is dropped
HelperErrIgnored(e) == CborNoError

\* err = <codec call> != CborNoError: err holds the int the comparison
\* yields, 1 or 0, not the CborError the call returned
HelperErr(e) == IF e # CborNoError THEN CborUnknownError ELSE CborNoError

\* variant of EnterLevel: the increment is missing
EnterLevelSame(lvl) == lvl

\* ++nestedctx.nestinglvl
EnterLevel(lvl) == lvl + 1

\* the line "unexpected EOF" is reported at
UnexpectedEofLine(token, nxt) == tokens[token].lineno

\* variant of MissingBracketLine: the line of the container keyword
MissingBracketLineOfKeyword(token, nxt) == tokens[token].lineno

\* the line "missing opening bracket" is reported at
MissingBracketLine(token, nxt) == tokens[nxt].lineno

\* encoderecursive: case Array / case Map, and encodecontainerhelper up to
\* its call of encoderecursive
EncodeContainer ==
    /\ pc = "encoderecursive"
    /\ Active.curtoken \notin {NULL, Wild}
    /\ tokens[Active.curtoken].type \in {"Array", "Map"}
    /\ LET token == Active.curtoken IN
       \E n \in ReadNext(token) :
         IF n = NULL
         THEN /\ Fail(<<complainline("unexpected EOF", UnexpectedEofLine(token, n))>>,
                      helpers)
              /\ UNCHANGED <<ctx, calls>>
         ELSE IF n = Wild
         THEN /\ pc' = "crashed"
              /\ UNCHANGED <<ctx, helpers, calls, diag>>
         ELSE IF tokens[n].type # "OpeningBracket"
         THEN /\ Fail(<<complainline("missing opening bracket",
                                     MissingBracketLine(token, n))>>, helpers)
              /\ UNCHANGED <<ctx, calls>>
         ELSE \E e \in CodecResults :
                /\ calls' = Append(calls, CreateCall(CreateContainerFn(tokens[token]),
                                                     Active.encoder, NewEncoder, e))
                /\ IF HelperErr(e) # CborNoError
                   THEN /\ Fail(<<complainencode(HelperErr(e), tokens[token].lineno)>>,
                                helpers)
                        /\ ctx' = ctx
                   ELSE \E n2 \in ReadNext(n) :
                          IF n2 = NULL
                          THEN /\ Fail(<<complainline("encode container failure",
                                                      tokens[token].lineno)>>, helpers)
                               /\ ctx' = ctx
                          ELSE /\ helpers' = Append(helpers,
                                    [token |-> token,
                                     nestedctx |-> [Active EXCEPT
                                        !.curtoken = n2,
                                        !.nestinglvl = EnterLevel(Active.nestinglvl),
                                        !.encoder = NewEncoder]])
                               /\ UNCHANGED <<ctx, diag, pc>>
    /\ UNCHANGED <<input, argc, file, ptr, lineno, tokens, err, out, result>>

\* variant of Balanced: the level is compared as it was before the ] was consumed
BalancedBeforeClose(nested, enclosing) == nested.nestinglvl = enclosing.nestinglvl + 1

\* nestedctx.nestinglvl != ctx->nestinglvl does not hold
Balanced(nested, enclosing) == nested.nestinglvl = enclosing.nestinglvl

\* encodecontainerhelper after encoderecursive returned 0, and the loop
\* increment of the enclosing encoderecursive
HelperReturn ==
    /\ pc = "helperreturn"
    /\ LET k == Len(helpers)
           token == helpers[k].token
           nested == helpers[k].nestedctx
           outer == SubSeq(helpers, 1, k - 1)
       IN
       IF ~Balanced(nested, Enclosing(k))
       THEN /\ Fail(<<complainline("unbalanced nesting level", tokens[token].lineno)>>,
                    outer)
            /\ UNCHANGED <<ctx, calls>>
       ELSE \E e \in CodecResults :
              /\ calls' = Append(calls, CodecCall("cbor_encoder_close_container",
                                                  Enclosing(k).encoder, nested.encoder, e))
              /\ IF HelperErr(e) # CborNoError
                 THEN /\ Fail(<<complainencode(HelperErr(e), tokens[token].lineno)>>, outer)
                      /\ ctx' = ctx
                 ELSE IF nested.curtoken \in {NULL, Wild}
                 THEN /\ pc' = "crashed"
                      /\ UNCHANGED <<ctx, helpers, diag>>
                 ELSE \E n \in ReadNext(nested.curtoken) :
                        /\ IF k = 1
                           THEN /\ ctx' = [ctx EXCEPT !.curtoken = n]
                                /\ helpers' = outer
                           ELSE /\ ctx' = ctx
                                /\ helpers' = [outer EXCEPT ![k - 1].nestedctx.curtoken = n]
                        /\ pc' = "encoderecursive"
                        /\ diag' = diag
    /\ UNCHANGED <<input, argc, file, ptr, lineno, tokens, err, out, result>>

----------------------------------------------------------------------------
(* dump, cleanupcontext, and the end of main. *)

\* the content of the output buffer: the items the codec encoded
Encoded ==
    [i \in DOMAIN calls |->
        [op |-> calls[i].op, enc |-> calls[i].enc, arg |-> calls[i].arg]]

\* main after encode returned 0: dump, result = 0
Dump ==
    /\ pc = "dump"
    /\ out' = Append(out, [bytes |-> Encoded])
    /\ result' = 0
    /\ pc' = "cleanupcontext"
    /\ UNCHANGED <<input, argc, file, ptr, lineno, tokens, ctx, helpers, calls, err, diag>>

\* the tokens cleanupcontext reaches from p before it reads a next field
\* that is null or was never assigned
RECURSIVE Chain(_)
Chain(p) ==
    IF tokens[p].next \in {NULL, Uninit, Wild} THEN <<p>>
    ELSE <<p>> \o Chain(tokens[p].next)

\* free(ctx->outbuff)
FreeBuff(b) == IF b = "NULL" THEN "NULL" ELSE "freed"

\* cleanupcontext, and main's return
CleanupContext ==
    /\ pc = "cleanupcontext"
    /\ IF ctx.tokens = NULL
       THEN /\ ctx' = [ctx EXCEPT !.outbuff = FreeBuff(@)]
            /\ tokens' = tokens
            /\ pc' = "exit"
       ELSE LET chain == Chain(ctx.tokens)
                walked == {chain[i] : i \in DOMAIN chain}
            IN  /\ tokens' = [i \in DOMAIN tokens |->
                                IF i \in walked THEN freetoken(tokens[i])
                                ELSE tokens[i]]
                /\ \E n \in ReadNext(chain[Len(chain)]) :
                     IF n = NULL
                     THEN /\ ctx' = [ctx EXCEPT !.tokens = NULL, !.outbuff = FreeBuff(@)]
                          /\ pc' = "exit"
                     ELSE /\ ctx' = [ctx EXCEPT !.tokens = n]
                          /\ pc' = "crashed"
    /\ UNCHANGED <<input, argc, file, ptr, lineno, helpers, calls, err, diag, out, result>>

----------------------------------------------------------------------------
(* The runs of the program. *)

\* the pieces input files are made of
Pieces ==
    { <<"A", "r", "r", "a", "y">>, <<"M", "a", "p">>, <<"n", "u", "l", "l">>,
      <<"u", "n", "d", "e", "f", "i", "n", "e", "d">>, <<"t", "r", "u", "e">>,
      <<"f", "a", "l", "s", "e">>, <<"[">>, <<"]">>, <<"1">>, <<"x">>,
      <<" ">>, <<"\n">>, <<"\"">> }

RECURSIVE Texts(_)
Texts(n) ==
    IF n = 0 THEN {<<>>}
    ELSE Texts(n - 1) \cup {t \o p : t \in Texts(n - 1), p \in Pieces}

\* a run of main on an input file
Init ==
    /\ pc = "main"
    /\ argc \in {ArgCount - 1, ArgCount}
    /\ input \in Texts(MaxPieces)
    /\ file = input
    /\ ptr = <<>>
    /\ lineno = 0
    /\ tokens = <<>>
    /\ ctx = ZeroContext
    /\ helpers = <<>>
    /\ calls = <<>>
    /\ err = 0
    /\ diag = <<>>
    /\ out = <<>>
    /\ result = 0

Next ==
    \/ Main
    \/ InitContext
    \/ FOpen
    \/ FGets
    \/ FirstToken
    \/ FClose
    \/ Encode
    \/ LoopExit
    \/ WildRead
    \/ EncodeScalar
    \/ EncodeClosingBracket
    \/ EncodeUnhandled
    \/ EncodeContainer
    \/ HelperReturn
    \/ Dump
    \/ CleanupContext

Spec == Init /\ [][Next]_vars

\* the token kinds of the chains handed to encode
EncKinds == {"Array", "Map", "Int", "OpeningBracket", "ClosingBracket"}

\* the number of Int tokens among the first i
IntsUpTo(kinds, i) == Cardinality({j \in 1..i : kinds[j] = "Int"})

\* the chain readtokens leaves for the token kinds `kinds`, the k-th Int
\* token being the literal k, all on one line or one token per line
ChainOf(kinds, perline) ==
    [i \in DOMAIN kinds |->
        [type |-> kinds[i],
         val |-> IF kinds[i] = "Int" THEN IntsUpTo(kinds, i) ELSE 0,
         size |-> 0,
         lineno |-> IF perline THEN i ELSE 1,
         next |-> IF i < Len(kinds) THEN i + 1 ELSE Uninit,
         freed |-> 0, valsfreed |-> 0]]

\* the text of the token kinds[i] of such a chain
KindText(kinds, i) ==
    CASE kinds[i] = "Array" -> CStr("Array")
      [] kinds[i] = "Map" -> CStr("Map")
      [] kinds[i] = "OpeningBracket" -> <<"[">>
      [] kinds[i] = "ClosingBracket" -> <<"]">>
      [] kinds[i] = "Int" ->
            <<(<<"1", "2", "3", "4", "5", "6", "7", "8", "9">>)[IntsUpTo(kinds, i)]>>

\* the input file readtokens read the chain from
RECURSIVE TextOf(_, _, _)
TextOf(kinds, perline, i) ==
    IF i > Len(kinds) THEN <<>>
    ELSE KindText(kinds, i)
         \o (IF i = Len(kinds) THEN <<>> ELSE IF perline THEN <<"\n">> ELSE <<" ">>)
         \o TextOf(kinds, perline, i + 1)

\* encode, called by main after readfile returned 0, on any chain of at
\* most MaxLen tokens; the run is followed until encode returns
EncInit ==
    /\ pc = "encode"
    /\ argc = ArgCount
    /\ file = <<>>
    /\ ptr = <<>>
    /\ \E n \in 0..MaxLen : \E kinds \in [1..n -> EncKinds] : \E perline \in BOOLEAN :
         /\ input = TextOf(kinds, perline, 1)
         /\ tokens = ChainOf(kinds, perline)
         /\ lineno = IF perline THEN n ELSE IF n = 0 THEN 0 ELSE 1
         /\ ctx = [ZeroContext EXCEPT
                      !.tokens = IF n = 0 THEN NULL ELSE 1,
                      !.curtoken = IF n = 0 THEN NULL ELSE n,
                      !.outbuff = "allocated"]
    /\ helpers = <<>>
    /\ calls = <<>>
    /\ err = 0
    /\ diag = <<>>
    /\ out = <<>>
    /\ result = 1

EncNext ==
    \/ Encode
    \/ LoopExit
    \/ WildRead
    \/ EncodeScalar
    \/ EncodeClosingBracket
    \/ EncodeUnhandled
    \/ EncodeContainer
    \/ HelperReturn

EncSpec == EncInit /\ [][EncNext]_vars

\* the chain of ChainOf where malloc returned zeroed memory: the next of the
\* last token, never assigned, is null
TerminatedChainOf(kinds, perline) ==
    [i \in DOMAIN kinds |->
        IF i = Len(kinds) THEN [ChainOf(kinds, perline)[i] EXCEPT !.next = NULL]
        ELSE ChainOf(kinds, perline)[i]]

\* encode on any properly terminated chain of at most MaxTermLen tokens
TermInit ==
    /\ pc = "encode"
    /\ argc = ArgCount
    /\ file = <<>>
    /\ ptr = <<>>
    /\ \E n \in 0..MaxTermLen : \E kinds \in [1..n -> EncKinds] : \E perline \in BOOLEAN :
         /\ input = TextOf(kinds, perline, 1)
         /\ tokens = TerminatedChainOf(kinds, perline)
         /\ lineno = IF perline THEN n ELSE IF n = 0 THEN 0 ELSE 1
         /\ ctx = [ZeroContext EXCEPT
                      !.tokens = IF n = 0 THEN NULL ELSE 1,
                      !.curtoken = IF n = 0 THEN NULL ELSE n,
                      !.outbuff = "allocated"]
    /\ helpers = <<>>
    /\ calls = <<>>
    /\ err = 0
    /\ diag = <<>>
    /\ out = <<>>
    /\ result = 1

TermNext ==
    \/ Encode
    \/ LoopExit
    \/ EncodeScalar
    \/ EncodeClosingBracket
    \/ EncodeUnhandled
    \/ EncodeContainer
    \/ HelperReturn

\* encode is one sequential computation: it goes on while it can
TermSpec == TermInit /\ [][TermNext]_vars /\ WF_vars(TermNext)

\* the pieces the files of literals are made of
LexPieces ==
    { <<"3">>, <<"0">>, <<".">>, <<"x">>, <<"1", "F">>, <<"-">>, <<"e">>,
      <<"\"">>, <<"h">>, <<" ">>, <<"\n">>, <<"]">>,
      <<"2", "1", "4", "7", "4", "8", "3", "6", "4", "7">>,
      <<"2", "1", "4", "7", "4", "8", "3", "6", "4", "8">>,
      <<"8", "0", "0", "0", "0", "0", "0", "0">> }

RECURSIVE LexTexts(_)
LexTexts(n) ==
    IF n = 0 THEN {<<>>}
    ELSE LexTexts(n - 1) \cup {t \o p : t \in LexTexts(n - 1), p \in LexPieces}

\* n blanks
Pad(n) == [i \in 1..n |-> " "]

\* files whose first line is at the limit of linebuff: with its newline the
\* line has sizeof(linebuff) - 1 characters (the most one fgets reads), or
\* one more, or two more with a literal or a string straddling the limit
LongLineTexts ==
    { Pad(LineBuffSize - 3) \o <<"1", "\n", "3">>,
      Pad(LineBuffSize - 2) \o <<"1", "\n", "3">>,
      Pad(LineBuffSize - 2) \o <<"1", "2", "\n", "3">>,
      Pad(LineBuffSize - 2) \o <<"\"", "h", "\"", "\n", "3">> }

\* readtokens, called by readfile on an opened file, until readfile returns
LexInit ==
    /\ pc = "fgets"
    /\ input \in LexTexts(MaxLexPieces) \cup LongLineTexts
    /\ argc = ArgCount
    /\ file = input
    /\ ptr = <<>>
    /\ lineno = 0
    /\ tokens = <<>>
    /\ ctx = [ZeroContext EXCEPT !.outbuff = "allocated"]
    /\ helpers = <<>>
    /\ calls = <<>>
    /\ err = 0
    /\ diag = <<>>
    /\ out = <<>>
    /\ result = 1

LexNext ==
    \/ FGets
    \/ FirstToken
    \/ FClose

LexSpec == LexInit /\ [][LexNext]_vars

----------------------------------------------------------------------------
(* The shape of a token chain, read off the chain alone. *)

Types == [i \in DOMAIN tokens |-> tokens[i].type]

IsOpener(types, i) ==
    /\ i + 1 <= Len(types)
    /\ types[i] \in {"Array", "Map"}
    /\ types[i + 1] = "OpeningBracket"

\* the number of containers open after the first j tokens, a closing
\* bracket that closes nothing being ignored
RECURSIVE Depth(_, _)
Depth(types, j) ==
    IF j = 0 THEN 0
    ELSE IF j > 1 /\ IsOpener(types, j - 1) THEN Depth(types, j - 1) + 1
    ELSE IF types[j] = "ClosingBracket" /\ Depth(types, j - 1) > 0
         THEN Depth(types, j - 1) - 1
    ELSE Depth(types, j - 1)

\* a ] with no unclosed Array [ / Map [ before it
HasExtraClose(types) ==
    \E j \in DOMAIN types : types[j] = "ClosingBracket" /\ Depth(types, j - 1) = 0

\* a [ that does not follow an Array / Map keyword
HasStrayOpen(types) ==
    \E j \in DOMAIN types :
        /\ types[j] = "OpeningBracket"
        /\ (j = 1 \/ types[j - 1] \notin {"Array", "Map"})

\* [ minus ] among the tokens a..k
Bal(types, a, k) ==
    Cardinality({m \in a..k : types[m] = "OpeningBracket"})
    - Cardinality({m \in a..k : types[m] = "ClosingBracket"})

\* a container whose [ is not closed before the end of the chain
HasUnclosed(types) ==
    \E i \in DOMAIN types :
        /\ IsOpener(types, i)
        /\ \A k \in (i + 1)..Len(types) : Bal(types, i + 1, k) > 0

\* items from token i on, d containers being open: each item a scalar
\* token or Array / Map, [, items, ]
RECURSIVE Items(_, _, _)
Items(types, i, d) ==
    IF i > Len(types) THEN d = 0
    ELSE IF types[i] \in ScalarTypes THEN Items(types, i + 1, d)
    ELSE IF types[i] \in {"Array", "Map"}
         THEN IsOpener(types, i) /\ Items(types, i + 2, d + 1)
    ELSE IF types[i] = "ClosingBracket" THEN d > 0 /\ Items(types, i + 1, d - 1)
    ELSE FALSE

WellFormed(types) == Items(types, 1, 0)

\* the deepest nesting of the chain
MaxDepth(types) ==
    IF types = <<>> THEN 0
    ELSE LET ds == {Depth(types, j) : j \in DOMAIN types}
         IN  CHOOSE d \in ds : \A e \in ds : e <= d

\* encode has returned 0 to main / has returned 1 to main
EncodeSucceeded == pc = "dump"

EncodeFailed ==
    /\ pc = "cleanupcontext"
    /\ diag # <<>>
    /\ diag[Len(diag)] = complain("encode failure")

AllCallsOk == \A i \in DOMAIN calls : calls[i].err = CborNoError

----------------------------------------------------------------------------
(* C1: encode never returns success on a chain that holds a ] with no      *)
(* unclosed Array [ / Map [ before it: the ] is met at nesting level 0 and *)
(* encode returns failure.                                                 *)
C1_ExtraCloseFails == EncodeSucceeded => ~HasExtraClose(Types)

\* an unmatched ] was met first and encode returned failure on it
C1_Witness ==
    /\ EncodeFailed
    /\ HasExtraClose(Types)
    /\ diag[1].msg = "unexpected bracket"
    /\ Len(Types) >= 3
    /\ Types[1] = "Array"

OpenContainers ==
    Cardinality({i \in DOMAIN calls :
                    calls[i].op \in CreateOps /\ calls[i].err = CborNoError})
    - Cardinality({i \in DOMAIN calls : calls[i].op = "cbor_encoder_close_container"})

(* C4: while encode runs, the nesting level of the active frame is the     *)
(* number of containers opened and not yet closed, no frame's level is     *)
(* below 0, and once a container's ] has been consumed the nested frame's  *)
(* level is the level of the enclosing frame.                              *)
C4_NestingLevel ==
    /\ ctx.nestinglvl >= 0
    /\ \A k \in DOMAIN helpers : helpers[k].nestedctx.nestinglvl >= 0
    /\ pc = "encoderecursive" => Active.nestinglvl = OpenContainers
    /\ (/\ pc = "helperreturn"
        /\ Active.curtoken \notin {NULL, Wild}
        /\ tokens[Active.curtoken].type = "ClosingBracket")
       => /\ Active.nestinglvl = Enclosing(Len(helpers)).nestinglvl
          /\ Active.nestinglvl = OpenContainers - 1

\* the ] of a container nested in another has just been consumed
C4_Witness ==
    /\ pc = "helperreturn"
    /\ Len(helpers) = 2
    /\ tokens[Active.curtoken].type = "ClosingBracket"
    /\ Active.nestinglvl = 1
    /\ OpenContainers = 2

\* the codec entry point expected for a scalar token
ExpectedScalarOp(type) ==
    CASE type = "Int" -> "cbor_encode_int"
      [] type = "Double" -> "cbor_encode_double"
      [] type = "String" -> "cbor_encode_text_stringz"
      [] type = "Null" -> "cbor_encode_null"
      [] type = "Bool" -> "cbor_encode_boolean"
      [] type = "Undefined" -> "cbor_encode_undefined"

\* the left-to-right walk of a well-formed chain from token i on: stack
\* holds the encoders of the open containers under the top-level encoder,
\* innermost last; opened counts the containers opened so far
RECURSIVE Walk(_, _, _, _)
Walk(i, stack, opened, acc) ==
    IF i > Len(tokens) THEN acc
    ELSE LET t == tokens[i]
             top == stack[Len(stack)]
         IN  IF t.type \in {"Array", "Map"}
             THEN Walk(i + 2, Append(stack, opened + 1), opened + 1,
                       Append(acc, [op |-> IF t.type = "Array"
                                           THEN "cbor_encoder_create_array"
                                           ELSE "cbor_encoder_create_map",
                                    enc |-> top, arg |-> opened + 1,
                                    len |-> CborIndefiniteLength, err |-> CborNoError]))
             ELSE IF t.type = "ClosingBracket"
             THEN Walk(i + 1, SubSeq(stack, 1, Len(stack) - 1), opened,
                       Append(acc, [op |-> "cbor_encoder_close_container",
                                    enc |-> stack[Len(stack) - 1], arg |-> top,
                                    len |-> "", err |-> CborNoError]))
             ELSE Walk(i + 1, stack, opened,
                       Append(acc, [op |-> ExpectedScalarOp(t.type), enc |-> top,
                                    arg |-> IF t.type = "Bool" THEN t.val # 0 ELSE t.val,
                                    len |-> "", err |-> CborNoError]))

ExpectedCalls == Walk(1, <<0>>, 0, <<>>)

(* C5: when encode returns success on a well-formed chain, the codec calls *)
(* it made are the left-to-right walk of the chain: a scalar call with the *)
(* token's payload per scalar token, an indefinite-length array or map     *)
(* open per container keyword, a close per ], each on the encoder of the   *)
(* innermost container open at that point.                                 *)
C5_CallsAreTheWalk ==
    (EncodeSucceeded /\ WellFormed(Types)) => calls = ExpectedCalls

\* Array [ 1 2 3 ] was encoded: open-array(indefinite), int 1, 2, 3, close
C5_Witness ==
    /\ EncodeSucceeded
    /\ Types = <<"Array", "OpeningBracket", "Int", "Int", "Int", "ClosingBracket">>
    /\ calls = << CreateCall("cbor_encoder_create_array", 0, 1, CborNoError),
                  CodecCall("cbor_encode_int", 1, 1, CborNoError),
                  CodecCall("cbor_encode_int", 1, 2, CborNoError),
                  CodecCall("cbor_encode_int", 1, 3, CborNoError),
                  CodecCall("cbor_encoder_close_container", 0, 1, CborNoError) >>

(* C6: in a run with two arguments the encoded bytes are dumped and the    *)
(* exit status is 0 only if buffer allocation, tokenization and encoding   *)
(* all succeeded; once a stage has failed (a codec error included) nothing *)
(* is dumped and the status stays non-zero.                                *)
AllStagesSucceeded ==
    /\ ctx.outbuff # "NULL"
    /\ err = 0 /\ file = <<>> /\ ptr = <<>>
    /\ AllCallsOk /\ helpers = <<>>
    /\ diag = <<>>

StageFailed == diag # <<>> \/ ~AllCallsOk \/ err # 0

C6_DumpOnlyOnSuccess ==
    argc = ArgCount =>
        /\ Len(out) > 0 => AllStagesSucceeded
        /\ (pc = "exit" /\ result = 0) => (AllStagesSucceeded /\ Len(out) = 1)
        /\ StageFailed => (Len(out) = 0 /\ result # 0)

\* a codec call ran out of space: the run ended with nothing dumped, status 1
C6_Witness ==
    /\ argc = ArgCount
    /\ pc = "exit"
    /\ \E i \in DOMAIN calls : calls[i].err = CborErrorOutOfMemory
    /\ Len(out) = 0
    /\ result = 1

\* the token the encoder is working on: the container keyword inside
\* encodecontainerhelper, else the token at the cursor
EncodingToken ==
    IF pc = "helperreturn" THEN helpers[Len(helpers)].token ELSE Active.curtoken

(* C7: the diagnostic emitted for a failed codec call (scalar encode,      *)
(* container open, container close) carries the error the call returned    *)
(* and the line of the token being encoded.                                *)
C7_DiagCarriesCodecError ==
    [][\A i \in (Len(diag) + 1)..Len(diag') :
          diag'[i].fn = "complainencode" =>
              /\ Len(calls') = Len(calls) + 1
              /\ diag'[i].err = calls'[Len(calls')].err
              /\ diag'[i].line = tokens[EncodingToken].lineno]_vars

\* the line of the first new diagnostic of a step
NewLine == diag'[Len(diag) + 1]

AtKeyword ==
    /\ pc = "encoderecursive"
    /\ Active.curtoken \notin {NULL, Wild}
    /\ tokens[Active.curtoken].type \in {"Array", "Map"}

\* the token after the keyword at the cursor, when there is one
Follower == tokens[Active.curtoken].next

MainLines == {"context initialization failure", "read file failure",
              "encode failure", "dump failure"}

FailingRun == argc = ArgCount /\ pc = "exit" /\ result # 0

Keywords ==
    { [text |-> CStr("Array"), type |-> "Array", val |-> 0],
      [text |-> CStr("Map"), type |-> "Map", val |-> 0],
      [text |-> CStr("null"), type |-> "Null", val |-> 0],
      [text |-> CStr("undefined"), type |-> "Undefined", val |-> 0],
      [text |-> CStr("true"), type |-> "Bool", val |-> 1],
      [text |-> CStr("false"), type |-> "Bool", val |-> 0] }

FollowedByAlnum(str, word) ==
    Len(str) > Len(word) /\ str[Len(word) + 1] \in Letters \cup Digits

\* the step appends a token of the keyword's kind
AppendsKeyword(kw) ==
    /\ Len(tokens') = Len(tokens) + 1
    /\ tokens'[Len(tokens')].type = kw.type
    /\ kw.type = "Bool" => tokens'[Len(tokens')].val = kw.val

(* C10: a scan step yields a token of a keyword's kind only if the scan    *)
(* position holds the keyword followed by the end of the line or by a      *)
(* non-alphanumeric character; a keyword followed by a letter or digit     *)
(* yields no token of its kind there.                                      *)
C10_KeywordBoundary ==
    [][pc = "firsttoken" =>
          LET str == Drop(ptr, skipws(ptr)) IN
          \A kw \in Keywords :
              /\ AppendsKeyword(kw) =>
                    (HasPrefix(str, kw.text) /\ ~FollowedByAlnum(str, kw.text))
              /\ (HasPrefix(str, kw.text) /\ FollowedByAlnum(str, kw.text))
                    => ~AppendsKeyword(kw)]_vars

\* Arrayx was scanned: no token, the fragment was not recognised
C10_Witness ==
    /\ tokens = <<>>
    /\ \E i \in DOMAIN diag :
          /\ diag[i].msg = "token not recognized"
          /\ diag[i].s = <<"A", "r", "r", "a", "y", "x">>

----------------------------------------------------------------------------
(* The scan steps of readtokens, seen from outside. *)

\* the scan position of the step: ptr after its white space
ScanPos == Drop(ptr, skipws(ptr))

\* the step appends a token of the type
Produces(type) ==
    /\ Len(tokens') = Len(tokens) + 1
    /\ tokens'[Len(tokens')].type = type

\* the token the step appends
Produced == tokens'[Len(tokens')]

\* the step fails on the fragment at the scan position
Unrecognised ==
    /\ Len(diag') = Len(diag) + 2
    /\ NewLine = complainstr("token not recognized", ScanPos)
    /\ err' = 1
    /\ tokens' = tokens

\* the step fails because malloc did
AllocFailed ==
    /\ Len(diag') > Len(diag)
    /\ NewLine.msg \in {"token allocation failure",
                        "string token buffer allocation failure"}

\* a second quote occurs after the quote str starts with
HasClosingQuote(str) == \E j \in 2..Len(str) : str[j] = "\""

\* str starts with a keyword or boolean at a word boundary, a bracket, or a
\* terminated string
MatchesNonNumeric(str) ==
    \/ \E kw \in Keywords : HasPrefix(str, kw.text) /\ ~FollowedByAlnum(str, kw.text)
    \/ str[1] \in {"[", "]"}
    \/ str[1] = "\"" /\ HasClosingQuote(str)

\* str is the literal lit followed by the end of the line or a blank
StartsWithLiteral(str, lit) ==
    /\ HasPrefix(str, lit)
    /\ (Len(str) = Len(lit) \/ str[Len(lit) + 1] = " ")

(* C11: at a scan position that matches no keyword, bracket, string or     *)
(* boolean, a scan step yields a Double token iff the floating-point parse *)
(* consumes strictly more characters than the integer parse, otherwise an  *)
(* Int token iff the integer parse consumed a character, otherwise it      *)
(* fails as unrecognised (a token is not yielded when malloc fails); 3.0   *)
(* yields Double, 3 yields Int 3, 0x1F yields Int 31.                      *)
C11_NumericDisambiguation ==
    [][(pc = "firsttoken" /\ ~MatchesNonNumeric(ScanPos)) =>
          LET str == ScanPos
              dlen == StrtodLen(str)
              ilen == StrtolLen(str)
          IN  /\ Produces("Double") => dlen > ilen
              /\ dlen > ilen => (Produces("Double") \/ AllocFailed)
              /\ Produces("Int") => (dlen <= ilen /\ ilen > 0)
              /\ (dlen <= ilen /\ ilen > 0) => (Produces("Int") \/ AllocFailed)
              /\ Unrecognised <=> (dlen = 0 /\ ilen = 0)
              /\ Len(tokens') > Len(tokens) => (Produces("Double") \/ Produces("Int"))
              /\ (StartsWithLiteral(str, <<"3", ".", "0">>) /\ ~AllocFailed)
                 => (Produces("Double") /\ Produced.val = <<"3", ".", "0">>)
              /\ (StartsWithLiteral(str, <<"3">>) /\ ~AllocFailed)
                 => (Produces("Int") /\ Produced.val = 3)
              /\ (StartsWithLiteral(str, <<"0", "x", "1", "F">>) /\ ~AllocFailed)
                 => (Produces("Int") /\ Produced.val = 31)]_vars

\* the file 3.0 was read: one Double token
C11_Witness ==
    /\ input = <<"3", ".", "0">>
    /\ pc = "fclose"
    /\ Len(tokens) = 1
    /\ tokens[1].type = "Double"
    /\ tokens[1].val = <<"3", ".", "0">>

\* the position of the first quote after the quote str starts with
ClosingQuote(str) ==
    CHOOSE j \in 2..Len(str) :
        str[j] = "\"" /\ \A k \in 2..(j - 1) : str[k] # "\""

\* the characters strictly between the two quotes
Quoted(str) == [i \in 1..(ClosingQuote(str) - 2) |-> str[i + 1]]

(* C12: at a scan position that starts with a quote, if a second quote     *)
(* occurs later on the line the step yields a String token whose payload   *)
(* is exactly the characters strictly between the two quotes, in a buffer  *)
(* of length payload length + 1, and the scan resumes just after the       *)
(* closing quote (no token is yielded when malloc fails); if there is no   *)
(* closing quote on the line, tokenization fails.                          *)
C12_StringLiteral ==
    [][(pc = "firsttoken" /\ ScanPos[1] = "\"") =>
          LET str == ScanPos IN
          IF HasClosingQuote(str)
          THEN \/ AllocFailed /\ tokens' = tokens /\ err' = 1
               \/ /\ Produces("String")
                  /\ Produced.val = Quoted(str)
                  /\ Produced.size = Len(Quoted(str)) + 1
                  /\ ptr' = Drop(str, ClosingQuote(str))
                  /\ diag' = diag
          ELSE Unrecognised /\ pc' = "fclose"]_vars

\* the file " " was read: one String token holding a blank
C12_Witness ==
    /\ input = <<"\"", " ", "\"">>
    /\ pc = "fclose"
    /\ Len(tokens) = 1
    /\ tokens[1].type = "String"
    /\ tokens[1].val = <<" ">>
    /\ tokens[1].size = 2

----------------------------------------------------------------------------
(* The tokens of a text, read off the text alone. *)

\* the lines of a text: the characters before each newline, and whether the
\* line ends with one
RECURSIVE LinesOf(_)
LinesOf(text) ==
    IF text = <<>> THEN <<>>
    ELSE LET n == SpanNot(text, 1, "\n")
         IN  <<[chars |-> SubSeq(text, 1, n), newline |-> n < Len(text)]>>
             \o LinesOf(Drop(text, n + 1))

\* every line, with its newline, is read by one fgets
AllLinesFit(text) ==
    \A k \in DOMAIN LinesOf(text) :
        LET line == LinesOf(text)[k]
        IN  Len(line.chars) + (IF line.newline THEN 1 ELSE 0) <= LineBuffSize - 1

\* the tokens of line k, from left to right, up to the first fragment that
\* is not recognised; ok tells that there was none
RECURSIVE LineTokens(_, _)
LineTokens(str, k) ==
    LET r == firsttoken(str) IN
    IF Drop(str, r.ws) = <<>> THEN [toks |-> <<>>, ok |-> TRUE]
    ELSE IF ~r.recognized THEN [toks |-> <<>>, ok |-> FALSE]
    ELSE LET rest == LineTokens(Drop(str, r.ws + r.skip), k)
         IN  [toks |-> <<[type |-> r.type, val |-> r.data, lineno |-> k]>> \o rest.toks,
              ok |-> rest.ok]

\* the tokens of the lines k.. of a text, in order
RECURSIVE TextTokens(_, _)
TextTokens(lines, k) ==
    IF k > Len(lines) THEN [toks |-> <<>>, ok |-> TRUE]
    ELSE LET here == LineTokens(lines[k].chars, k) IN
         IF ~here.ok THEN here
         ELSE LET rest == TextTokens(lines, k + 1)
              IN  [toks |-> here.toks \o rest.toks, ok |-> rest.ok]

RefTokens(text) == TextTokens(LinesOf(text), 1)

\* what a walk of the chain from its head visits
ChainView ==
    IF ctx.tokens = NULL THEN <<>>
    ELSE LET chain == Chain(ctx.tokens)
         IN  [i \in DOMAIN chain |->
                 [type |-> tokens[chain[i]].type, val |-> tokens[chain[i]].val,
                  lineno |-> tokens[chain[i]].lineno]]

IsPrefix(a, b) == Len(a) <= Len(b) /\ a = SubSeq(b, 1, Len(a))

(* C13: for an input whose lines are each read by one fgets, the walk of   *)
(* the chain from its head visits, at any moment of the tokenization, the  *)
(* first tokens of the text in the order of the text, across lines, each   *)
(* with the 1-based number of its line, and all of them once readfile has  *)
(* returned success; the chain holds every token allocated and no None     *)
(* token.                                                                  *)
C13_ChainIsTheText ==
    AllLinesFit(input) =>
        /\ IsPrefix(ChainView, RefTokens(input).toks)
        /\ Len(ChainView) = Len(tokens)
        /\ \A i \in DOMAIN tokens : tokens[i].type # "None"
        /\ pc = "encode" => (ChainView = RefTokens(input).toks /\ RefTokens(input).ok)

\* the file 3 / ] was read: Int 3 of line 1, then ] of line 2
C13_Witness ==
    /\ input = <<"3", "\n", "]">>
    /\ pc = "encode"
    /\ ChainView = << [type |-> "Int", val |-> 3, lineno |-> 1],
                      [type |-> "ClosingBracket", val |-> 0, lineno |-> 2] >>

----------------------------------------------------------------------------
(* The end of a run. *)

\* the run has come to its end: main returned, or the process was stopped
\* on a read through an indeterminate pointer
RunEnded == pc \in {"exit", "crashed"}

\* every token was freed once, with its string buffer if it has one, and
\* the output buffer is not left allocated
AllFreedOnce ==
    /\ \A i \in DOMAIN tokens :
          /\ tokens[i].freed = 1
          /\ tokens[i].valsfreed = (IF tokens[i].type = "String" THEN 1 ELSE 0)
    /\ ctx.outbuff # "allocated"
    /\ ctx.tokens = NULL

(* C14: a run that reached initcontext ends with main returning after      *)
(* cleanupcontext, whatever stage failed, and then every token appended to *)
(* the chain (with its string buffer) and the output buffer have been      *)
(* freed exactly once.                                                     *)
C14_CleanupFreesAll ==
    (argc = ArgCount /\ RunEnded) => (pc = "exit" /\ AllFreedOnce)

\* a step of encode in which nothing fails and after which the cursor of the
\* running encoderecursive is c
QuietStepTo(c) ==
    /\ Next
    /\ AllCallsOk'
    /\ diag' = diag
    /\ pc' = "encoderecursive"
    /\ Active'.curtoken = c

(* C15: runs on the same input text with the same answers of the codec and *)
(* of malloc have the same outcome: from no state of a run are there two   *)
(* continuations in which the environment answers alike (nothing fails)    *)
(* and the encoder goes on from different tokens.                          *)
C15_SameInputSameRun ==
    pc \in {"encode", "encoderecursive", "helperreturn"} =>
        \A c1, c2 \in {NULL, Wild} \cup DOMAIN tokens :
            (ENABLED QuietStepTo(c1) /\ ENABLED QuietStepTo(c2)) => c1 = c2

\* readtokens has returned and the chain is not empty
Tokenized ==
    /\ pc \in {"fclose", "encode", "encoderecursive", "helperreturn", "dump",
               "cleanupcontext"}
    /\ tokens # <<>>

(* C16: once readtokens has returned, the last token appended has a null   *)
(* successor and no token has a next field that was never assigned, and    *)
(* no traversal of the chain runs into an indeterminate pointer.           *)
C16_ChainTerminated ==
    /\ Tokenized =>
          /\ tokens[Len(tokens)].next = NULL
          /\ \A i \in DOMAIN tokens : tokens[i].next # Uninit
    /\ pc # "crashed"
    /\ Wild \notin {ctx.curtoken, ctx.tokens}

----------------------------------------------------------------------------
(* The codec calls of a run, replayed. *)

\* The calls i.. replayed on the stack of the open sub-encoders, each with
\* the encoder it was opened from, innermost last: ok tells that every
\* close was of the innermost open sub-encoder with its parent, and stack is
\* what is left open.
RECURSIVE Replay(_, _)
Replay(i, stack) ==
    IF i > Len(calls) THEN [ok |-> TRUE, stack |-> stack]
    ELSE LET c == calls[i] IN
         IF c.op \in CreateOps
         THEN IF c.err = CborNoError
              THEN Replay(i + 1, Append(stack, [sub |-> c.arg, parent |-> c.enc]))
              ELSE Replay(i + 1, stack)
         ELSE IF c.op = "cbor_encoder_close_container"
         THEN IF /\ stack # <<>>
                 /\ stack[Len(stack)].sub = c.arg
                 /\ stack[Len(stack)].parent = c.enc
              THEN Replay(i + 1, SubSeq(stack, 1, Len(stack) - 1))
              ELSE [ok |-> FALSE, stack |-> stack]
         ELSE Replay(i + 1, stack)

\* no call follows a call that failed
FailedCallIsLast == \A i \in DOMAIN calls : calls[i].err # CborNoError => i = Len(calls)

(* C17: in every execution of encode a close is called only on the most    *)
(* recently opened sub-encoder that is still open, with the encoder it was *)
(* opened from as parent; when encode returns success no sub-encoder is    *)
(* left open; and after a failure (a failed codec call, or a diagnostic)   *)
(* no further codec call is made.                                          *)
C17_OpenClosePaired ==
    /\ [](/\ Replay(1, <<>>).ok
          /\ EncodeSucceeded => Replay(1, <<>>).stack = <<>>
          /\ FailedCallIsLast)
    /\ [][diag # <<>> => calls' = calls]_vars

\* Array [ Map [ ] ] was encoded: the map was closed before the array
C17_Witness ==
    /\ EncodeSucceeded
    /\ Len(calls) = 4
    /\ calls[1] = CreateCall("cbor_encoder_create_array", 0, 1, CborNoError)
    /\ calls[2] = CreateCall("cbor_encoder_create_map", 1, 2, CborNoError)
    /\ calls[3] = CodecCall("cbor_encoder_close_container", 1, 2, CborNoError)
    /\ calls[4] = CodecCall("cbor_encoder_close_container", 0, 1, CborNoError)

----------------------------------------------------------------------------
(* The walk of encode over a properly terminated chain. *)

\* encode has returned to main
Returned == pc \in {"dump", "cleanupcontext"}

\* the token dispatched last: the token at the cursor of the running
\* encoderecursive, or the ] it returned on
Dispatched ==
    IF pc \in {"encoderecursive", "helperreturn"} THEN Active.curtoken ELSE NULL

\* the ] that closes the container whose keyword is token kw
MatchingClose(types, kw) ==
    CHOOSE j \in (kw + 2)..Len(types) :
        /\ Bal(types, kw + 1, j) = 0
        /\ \A m \in (kw + 1)..(j - 1) : Bal(types, kw + 1, m) > 0

\* a step of the walk: a dispatch is of a token after the one dispatched
\* before it, and the return of a helper leaves the enclosing scope at the
\* token after the matching ]
ForwardStep ==
    /\ (Dispatched # NULL /\ Dispatched' # NULL /\ pc' = "encoderecursive")
       => Dispatched' > Dispatched
    /\ (pc = "helperreturn" /\ pc' = "encoderecursive")
       => LET kw == helpers[Len(helpers)].token
              close == MatchingClose(Types, kw)
          IN  /\ Dispatched = close
              /\ Active'.curtoken = (IF close = Len(tokens) THEN NULL ELSE close + 1)
              /\ Len(helpers') = Len(helpers) - 1

(* C18: on every properly terminated chain encode returns; each dispatch   *)
(* is of a token after the one dispatched before it, so the cursor only    *)
(* moves forward and no token is dispatched twice; when a container has    *)
(* been closed the enclosing scope goes on at the token right after the    *)
(* matching ], or ends if there is none; and the active encoderecursive    *)
(* frames are never more than the deepest nesting of the chain plus one.   *)
C18_EncodeTerminates ==
    /\ <>Returned
    /\ [](Len(helpers) + 1 <= MaxDepth(Types) + 1)
    /\ [][ForwardStep]_vars

\* Array [ 1 ] 2 was encoded: after the ] the top level went on at the 2
C18_Witness ==
    /\ Returned
    /\ pc = "dump"
    /\ Types = <<"Array", "OpeningBracket", "Int", "ClosingBracket", "Int">>
    /\ tokens[5].next = NULL
    /\ Len(calls) = 4
    /\ calls[4] = CodecCall("cbor_encode_int", 0, 2, CborNoError)

----------------------------------------------------------------------------
(* Lines at the limit of linebuff. *)

\* a line of the text has more characters than linebuff holds
HasOverlongLine(text) ==
    \E k \in DOMAIN LinesOf(text) : Len(LinesOf(text)[k].chars) > LineBuffSize - 1

(* C19: an input with a line of more than sizeof(linebuff) - 1 characters  *)
(* makes tokenization fail: readfile does not return success on it, no     *)
(* more lines are counted than the text has, and the tokens of the chain   *)
(* are tokens of the text.                                                 *)
C19_LineLimitEnforced ==
    HasOverlongLine(input) =>
        /\ pc # "encode"
        /\ lineno <= Len(LinesOf(input))
        /\ IsPrefix(ChainView, RefTokens(input).toks)

----------------------------------------------------------------------------
(* The value of an integer literal, compared digit by digit. *)

\* the digits of n >= 0 in the base, most significant first
RECURSIVE DigitsOf(_, _)
DigitsOf(n, base) ==
    IF n < base THEN <<n>> ELSE Append(DigitsOf(n \div base, base), n % base)

\* the digits of the magnitude of a long int v; the magnitude of LONG_MIN is
\* LONG_MAX + 1
MagnitudeDigits(v, base) ==
    IF v >= 0 THEN DigitsOf(v, base)
    ELSE IF v > LONG_MIN THEN DigitsOf(0 - v, base)
    ELSE LET last == (LONG_MAX % base) + 1
         IN  Append(DigitsOf((LONG_MAX \div base) + (last \div base), base), last % base)

\* the digits of an integer literal after its sign and base prefix, without
\* leading zeros
LiteralDigits(lit) ==
    LET first == StrtolFirst(lit)
        all == [i \in 1..(Len(lit) - first + 1) |-> DigitVal(lit[first + i - 1])]
        zeros == Span(lit, first, {"0"})
    IN  IF zeros = Len(all) THEN <<0>> ELSE SubSeq(all, zeros + 1, Len(all))

\* the characters the step consumed at the scan position
Consumed == SubSeq(ScanPos, 1, Len(ScanPos) - Len(ptr'))

(* C20: the payload of every Int token a scan step yields is the value of  *)
(* the literal it consumed under the base-prefix rules: its digits in the  *)
(* base of the literal are the digits of the literal, and it is negative   *)
(* only for a literal with a minus sign.                                   *)
C20_IntPayloadIsLiteral ==
    [][(pc = "firsttoken" /\ Produces("Int")) =>
          /\ MagnitudeDigits(Produced.val, StrtolBase(Consumed)) = LiteralDigits(Consumed)
          /\ Produced.val < 0 => Consumed[1] = "-"]_vars

====
